---- MODULE Spec2Model ----
(***************************************************************************)
(* TTP normalisation and enrichment engine of ttp-scraper (utils.py) and   *)
(* the collector runs that drive it (alienvault.py, cisa.py, talos.py).    *)
(*                                                                         *)
(* A Python str is a sequence of one-character strings, so that split,     *)
(* zfill, the f-string concatenations and the title regex are computed.    *)
(* Tactic labels are only ever compared whole and stay atomic strings.     *)
(* An optional value (None or x) is the sequence <<>> or <<x>>.            *)
(***************************************************************************)
EXTENDS Integers, Sequences, FiniteSets, TLC

VARIABLES
    pc,           \* position of the run (or of the pure-function harness)
    collector,    \* "alienvault" | "cisa" | "talos" ("" in the harness)
    loaded,       \* datasets added to mem_store so far, in order
    builds,       \* number of MitreAttack() constructor calls of this run
    mitre,        \* <<>> or <<instance>>: the collector's mitre_attack variable
    used,         \* instance numbers get_mitre_info has been called on
    reports,      \* reports appended so far: [goals, ttps, raws]
    ttps,         \* the list find_ttps / get_ttps is building
    raws,         \* raw identifier behind each record of ttps
    call,         \* <<>> or <<c>>: the get_mitre_info call in progress or
                  \* last returned, with the raw identifier it was made for
    exc,          \* <<>> or <<[type, in]>>: the exception that ended the run
    written,      \* the output file has been written
    arg,          \* harness: the input drawn
    ret,          \* harness: the outputs computed
    fetched,      \* fallback harness: the fetches of the get_mitre_info call,
                  \* in order: [ci, url, resp]
    scan          \* cisa.py scrape: its locals, its fetch counters and what
                  \* it returned

vars == <<pc, collector, loaded, builds, mitre, used, reports, ttps, raws,
          call, exc, written, arg, ret, fetched, scan>>

(***************************************************************************)
(* Strings                                                                 *)
(***************************************************************************)
T1086     == <<"T","1","0","8","6">>
T1155     == <<"T","1","1","5","5">>
T1150     == <<"T","1","1","5","0">>
T1162     == <<"T","1","1","6","2">>
T1059_001 == <<"T","1","0","5","9",".","0","0","1">>
T1059_002 == <<"T","1","0","5","9",".","0","0","2">>
T1547_011 == <<"T","1","5","4","7",".","0","1","1">>

RECURSIVE Concat(_)
Concat(parts) ==
    IF parts = <<>> THEN <<>> ELSE Head(parts) \o Concat(Tail(parts))

RECURSIVE Repeat(_, _)
Repeat(c, n) == IF n <= 0 THEN <<>> ELSE <<c>> \o Repeat(c, n - 1)

\* index of the first occurrence of character c in s, 0 when absent
RECURSIVE Find(_, _, _)
Find(s, c, i) ==
    IF i > Len(s) THEN 0 ELSE IF s[i] = c THEN i ELSE Find(s, c, i + 1)

\* str.zfill(width): zeros on the left, after a leading sign
zfill(s, width) ==
    IF Len(s) >= width THEN s
    ELSE IF Len(s) > 0 /\ s[1] \in {"+", "-"}
         THEN <<s[1]>> \o Repeat("0", width - Len(s)) \o Tail(s)
         ELSE Repeat("0", width - Len(s)) \o s

(***************************************************************************)
(* utils.py: the remap table and remap_old_tid                             *)
(***************************************************************************)
TID_REMAP_chained ==
    (T1086 :> T1150) @@ (T1155 :> T1059_002) @@
    (T1150 :> T1547_011) @@ (T1162 :> T1547_011)

TID_REMAP ==
    (T1086 :> T1059_001) @@ (T1155 :> T1059_002) @@
    (T1150 :> T1547_011) @@ (T1162 :> T1547_011)

\* the table is never consulted
remap_old_tid_identity(tid) == tid

\* dict.get without its default: None for every identifier not in the table
remap_old_tid_nodefault(tid) ==
    IF tid \in DOMAIN TID_REMAP THEN TID_REMAP[tid] ELSE <<>>

remap_old_tid(tid) ==
    IF tid \in DOMAIN TID_REMAP THEN TID_REMAP[tid] ELSE tid

(***************************************************************************)
(* utils.py: filter_goal_ttps                                              *)
(***************************************************************************)
InSeq(x, s) == \E i \in 1..Len(s) : s[i] = x

\* line 40: "impact" in tactics or "exfiltration" in tactics
is_goal(ttp) ==
    InSeq("impact", ttp.tactics) \/ InSeq("exfiltration", ttp.tactics)

\* list.remove(x): drops the first element equal to x
RECURSIVE ListRemove(_, _)
ListRemove(l, x) ==
    IF l = <<>> THEN <<>>
    ELSE IF Head(l) = x THEN Tail(l)
    ELSE <<Head(l)>> \o ListRemove(Tail(l), x)

RECURSIVE RemoveEach(_, _)
RemoveEach(l, gs) ==
    IF gs = <<>> THEN l ELSE RemoveEach(ListRemove(l, Head(gs)), Tail(gs))

RECURSIVE GoalsOf(_)
GoalsOf(l) ==
    IF l = <<>> THEN <<>>
    ELSE (IF is_goal(Head(l)) THEN <<Head(l)>> ELSE <<>>) \o GoalsOf(Tail(l))

\* remove-while-iterating: the element after each removed goal is skipped
RECURSIVE filter_iter(_, _, _)
filter_iter(l, i, goals) ==
    IF i > Len(l) THEN [goals |-> goals, ttps |-> l]
    ELSE IF is_goal(l[i])
         THEN filter_iter(ListRemove(l, l[i]), i + 1, Append(goals, l[i]))
         ELSE filter_iter(l, i + 1, goals)

filter_goal_ttps_while_iterating(l) == filter_iter(l, 1, <<>>)

\* returns the goals; ttps is the caller's list after the in-place removals
filter_goal_ttps(l) ==
    LET goals == GoalsOf(l) IN [goals |-> goals, ttps |-> RemoveEach(l, goals)]

(***************************************************************************)
(* utils.py: scrape_mitre_name, the pure parts                             *)
(***************************************************************************)
MITRE_BASE == <<"h","t","t","p","s",":","/","/","a","t","t","a","c","k",".","m","i","t","r","e",".","o","r","g">>

TECHNIQUES == <<"/","t","e","c","h","n","i","q","u","e","s","/">>

\* line 100
max_follow == 5

\* lines 91-98 without the zfill of line 94
candidates_unpadded(tid) ==
    LET k == Find(tid, ".", 1) IN
    IF k > 0
    THEN LET base == SubSeq(tid, 1, k - 1)
             sub  == SubSeq(tid, k + 1, Len(tid))
         IN << Concat(<<MITRE_BASE, TECHNIQUES, base, <<"/">>, sub, <<"/">> >>),
               Concat(<<MITRE_BASE, TECHNIQUES, base, <<"/">> >>) >>
    ELSE << Concat(<<MITRE_BASE, TECHNIQUES, tid, <<"/">> >>) >>

\* lines 91-98: "." in tid, tid.split(".", 1), sub.zfill(3), the f-strings
candidates_for(tid) ==
    LET k == Find(tid, ".", 1) IN
    IF k > 0
    THEN LET base == SubSeq(tid, 1, k - 1)
             sub  == zfill(SubSeq(tid, k + 1, Len(tid)), 3)
         IN << Concat(<<MITRE_BASE, TECHNIQUES, base, <<"/">>, sub, <<"/">> >>),
               Concat(<<MITRE_BASE, TECHNIQUES, base, <<"/">> >>) >>
    ELSE << Concat(<<MITRE_BASE, TECHNIQUES, tid, <<"/">> >>) >>

\* line 114: re.sub(r":(?!:)", ": ", text)
RECURSIVE normalize_title(_)
normalize_title(text) ==
    IF text = <<>> THEN <<>>
    ELSE IF Head(text) = ":" /\ ~(Len(text) >= 2 /\ text[2] = ":")
         THEN <<":", " ">> \o normalize_title(Tail(text))
         ELSE <<Head(text)>> \o normalize_title(Tail(text))

Lower(c) ==
    CASE c = "U" -> "u" [] c = "R" -> "r" [] c = "L" -> "l" [] OTHER -> c

\* line 120: re.search(r"url=(.+)$", content, flags=re.I) on a one-line
\* content: group(1) as <<target>>, or <<>> when there is no match
RECURSIVE search_url(_, _)
search_url(content, i) ==
    IF i + 4 > Len(content) THEN <<>>
    ELSE IF /\ Lower(content[i]) = "u"     /\ Lower(content[i + 1]) = "r"
            /\ Lower(content[i + 2]) = "l" /\ content[i + 3] = "="
         THEN << SubSeq(content, i + 4, Len(content)) >>
         ELSE search_url(content, i + 1)

\* str.strip(chars): drops leading and trailing characters of the set
RECURSIVE LStrip(_, _)
LStrip(s, cs) ==
    IF s # <<>> /\ Head(s) \in cs THEN LStrip(Tail(s), cs) ELSE s

RECURSIVE RStrip(_, _)
RStrip(s, cs) ==
    IF s # <<>> /\ s[Len(s)] \in cs
    THEN RStrip(SubSeq(s, 1, Len(s) - 1), cs) ELSE s

Strip(s, cs) == RStrip(LStrip(s, cs), cs)

\* line 122: murl.group(1).strip().strip('"').strip("'")
redirect_target(group1) == Strip(Strip(Strip(group1, {" "}), {"\""}), {"'"})

StartsWith(s, p) == Len(s) >= Len(p) /\ SubSeq(s, 1, Len(p)) = p

\* line 124: urljoin(MITRE_BASE, target) for a target that is an absolute
\* http(s) URL, scheme-relative, rooted at "/" or a bare relative path
urljoin(base, target) ==
    IF target = <<>> THEN base
    ELSE IF \/ StartsWith(target, <<"h","t","t","p","s",":","/","/">>)
            \/ StartsWith(target, <<"h","t","t","p",":","/","/">>)
         THEN target
    ELSE IF StartsWith(target, <<"/", "/">>)
         THEN <<"h","t","t","p","s",":">> \o target
    ELSE IF Head(target) = "/" THEN base \o target
    ELSE base \o <<"/">> \o target

(***************************************************************************)
(* The three datasets MitreAttack() loads: a small synthetic taxonomy.     *)
(* kill_chain_phases is <<>> when the object has no such attribute and     *)
(* <<phases>> when it has.                                                 *)
(***************************************************************************)
T1486    == <<"T","1","4","8","6">>
T1078    == <<"T","1","0","7","8">>
T1639    == <<"T","1","6","3","9">>
T0800    == <<"T","0","8","0","0">>
T0801    == <<"T","0","8","0","1">>
T9999    == <<"T","9","9","9","9">>
T1547_11 == <<"T","1","5","4","7",".","1","1">>

Phase(p) == [kill_chain_name |-> "mitre-attack", phase_name |-> p]

Technique(id, name, phases) ==
    [attack_id |-> id, name |-> name, kill_chain_phases |-> phases]

ENTERPRISE ==
    << Technique(T1059_001, <<"P","S">>, << <<Phase("execution")>> >>),
       Technique(T1486, <<"D","E">>, << <<Phase("impact")>> >>),
       Technique(T1078, <<"V","A">>,
                 << <<Phase("defense-evasion"), Phase("persistence")>> >>) >>

MOBILE == << Technique(T1639, <<"E","A">>, << <<Phase("exfiltration")>> >>) >>

\* T0800 has no kill_chain_phases attribute, T0801 has an empty list
ICS == << Technique(T0800, <<"A","F">>, <<>>),
          Technique(T0801, <<"A","H">>, << <<>> >>) >>

Datasets == <<ENTERPRISE, MOBILE, ICS>>

\* what fetch + json.loads + mem_store.add of one dataset can end in
DatasetOutcomes ==
    {"ok", "HTTPError", "ConnectionError", "Timeout", "JSONDecodeError"}

\* a failed dataset is skipped and loading goes on
after_dataset_lenient(done, outcome) ==
    [loaded |-> Append(done, outcome), raised |-> <<>>]

\* lines 56-66: one dataset's fetch, json.loads and mem_store.add; nothing
\* catches what they raise
after_dataset(done, outcome) ==
    [loaded |-> Append(done, outcome),
     raised |-> IF outcome = "ok" THEN <<>>
                ELSE <<[type |-> outcome, in |-> "MitreAttack"]>>]

\* the objects of the datasets that were added to mem_store
RECURSIVE StoreOf(_, _)
StoreOf(done, i) ==
    IF i > Len(done) THEN <<>>
    ELSE (IF done[i] = "ok" THEN Datasets[i] ELSE <<>>) \o StoreOf(done, i + 1)

\* line 71: data.get_object_by_attack_id(tid, "attack-pattern")
RECURSIVE get_object_by_attack_id(_, _)
get_object_by_attack_id(data, tid) ==
    IF data = <<>> THEN <<>>
    ELSE IF Head(data).attack_id = tid THEN <<Head(data)>>
    ELSE get_object_by_attack_id(Tail(data), tid)

RECURSIVE PhaseNames(_)
PhaseNames(phases) ==
    IF phases = <<>> THEN <<>>
    ELSE <<Head(phases).phase_name>> \o PhaseNames(Tail(phases))

RECURSIVE KillChainNames(_)
KillChainNames(phases) ==
    IF phases = <<>> THEN <<>>
    ELSE <<Head(phases).kill_chain_name>> \o KillChainNames(Tail(phases))

found_record_kill_chain_name(technique, tid) ==
    IF technique.kill_chain_phases # <<>>
    THEN [name |-> technique.name, id |-> tid,
          tactics |-> KillChainNames(technique.kill_chain_phases[1])]
    ELSE [name |-> technique.name, id |-> tid, tactics |-> <<>>]

\* lines 72-77
found_record(technique, tid) ==
    IF technique.kill_chain_phases # <<>>
    THEN [name |-> technique.name, id |-> tid,
          tactics |-> PhaseNames(technique.kill_chain_phases[1])]
    ELSE [name |-> technique.name, id |-> tid, tactics |-> <<>>]

\* a warning printed by get_mitre_info: which message, and the id it names
Warning(msg, tid) == [msg |-> msg, tid |-> tid]

\* line 76: printed when the technique has no kill_chain_phases attribute
found_warnings(technique, tid) ==
    IF technique.kill_chain_phases # <<>> THEN <<>>
    ELSE <<Warning("No tactics found in MITRE attack data", tid)>>

\* lines 80-82
deprecated_record(name, tid) == [name |-> name, id |-> tid, tactics |-> <<>>]

not_found_record_no_id(tid) == [name |-> <<>>, id |-> <<>>, tactics |-> <<>>]

\* line 85
not_found_record(tid) == [name |-> <<>>, id |-> tid, tactics |-> <<>>]

(***************************************************************************)
(* What the reference site can answer to one fetch                         *)
(***************************************************************************)
\* h1: <<>> (no <h1>) or <<stripped text>>; meta: <<>> (no <meta>),
\* << <<>> >> (a <meta> without content) or << <<content>> >>
Page(h1, meta) == [status |-> "ok", h1 |-> h1, meta |-> meta]

Titles == { <<"A",":","B">> }

REFRESH == <<"0",";"," ","u","r","l","=">>

RedirectContents ==
    { REFRESH \o <<"/","n","/">>,
      <<"0",";"," ","U","R","L","=","'">> \o MITRE_BASE \o <<"/","n","/","'">> }

Responses ==
    { Page(<<t>>, <<>>) : t \in Titles }
    \cup { Page(<<>>, << <<c>> >>) : c \in RedirectContents }
    \cup { Page(<< <<>> >>, << <<c>> >>) : c \in RedirectContents }
    \cup { Page(<<>>, <<>>),
           Page(<< <<>> >>, <<>>),
           Page(<<>>, << <<>> >>),
           Page(<<>>, << <<<<"u","t","f","-","8">>>> >>) }
    \cup { [status |-> e] : e \in {"HTTPError", "ConnectionError", "Timeout"} }

(***************************************************************************)
(* utils.py: get_mitre_info and the fetch loop of scrape_mitre_name.       *)
(* A call is [tid, inst, state, candidates, ci, hop, current_url, kinds,   *)
(* rec, raised, warnings]: state is "fetching" while scrape_mitre_name is  *)
(* about to fetch current_url (candidate ci, hop fetches done for it),     *)
(* "returned" with rec = <<record>>, or "raised" with raised =             *)
(* <<exception type>>. warnings are the warnings the call printed.         *)
(* ci, hop and current_url are locals of scrape_mitre_name: they are gone  *)
(* (0, 0, <<>>) once it has returned.                                      *)
(* kinds is how the responses of this call were treated so far.            *)
(***************************************************************************)
\* lines 70-79 and 90-102: up to the first fetch
get_mitre_info(m, tid) ==
    LET technique == get_object_by_attack_id(m.data, tid)
        cands     == candidates_for(tid)
        c0 == [tid |-> tid, inst |-> m.inst, state |-> "returned",
               candidates |-> <<>>, ci |-> 0, hop |-> 0, current_url |-> <<>>,
               kinds |-> {}, rec |-> <<>>, raised |-> <<>>, warnings |-> <<>>]
    IN IF technique # <<>>
       THEN [c0 EXCEPT !.rec = <<found_record(technique[1], tid)>>,
                       !.warnings = found_warnings(technique[1], tid)]
       ELSE [c0 EXCEPT !.state = "fetching", !.candidates = cands,
                       !.ci = 1, !.current_url = cands[1]]

\* lines 79-85: what get_mitre_info returns for scrape_mitre_name's result
scrape_returns(c, name) ==
    [c EXCEPT !.state = "returned",
              !.ci = 0, !.hop = 0, !.current_url = <<>>,
              !.rec = << IF name # <<>> /\ name[1] # <<>>
                         THEN deprecated_record(name[1], c.tid)
                         ELSE not_found_record(c.tid) >>,
              !.warnings = << IF name # <<>> /\ name[1] # <<>>
                              THEN Warning("Deprecated TTP, no tactics found",
                                           c.tid)
                              ELSE Warning("No info found for TTP", c.tid) >>]

\* the first candidate that ends without a title ends the whole search
next_candidate_give_up(c) == scrape_returns(c, <<>>)

\* lines 101-102 and 128: the inner loop ended without a title
next_candidate(c) ==
    IF c.ci < Len(c.candidates)
    THEN [c EXCEPT !.ci = c.ci + 1, !.hop = 0,
                   !.current_url = c.candidates[c.ci + 1]]
    ELSE scrape_returns(c, <<>>)

Seen(c, kind) == [c EXCEPT !.kinds = c.kinds \cup {kind}]

\* redirects are followed for as long as the site sends them
scrape_step_no_budget(c, resp) ==
    IF resp.status = "HTTPError"
    THEN next_candidate(Seen(c, "HTTPError"))
    ELSE IF resp.status # "ok"
    THEN [Seen(c, resp.status) EXCEPT !.state = "raised",
                                      !.raised = <<resp.status>>]
    ELSE IF resp.h1 # <<>> /\ resp.h1[1] # <<>>
    THEN scrape_returns(Seen(c, "title"), <<normalize_title(resp.h1[1])>>)
    ELSE LET murl == IF resp.meta # <<>> /\ resp.meta[1] # <<>>
                        /\ resp.meta[1][1] # <<>>
                     THEN search_url(resp.meta[1][1], 1) ELSE <<>>
         IN IF murl # <<>>
            THEN [Seen(c, "redirect") EXCEPT
                     !.hop = c.hop + 1,
                     !.current_url =
                         urljoin(MITRE_BASE, redirect_target(murl[1]))]
            ELSE next_candidate(Seen(c, "dead"))

\* lines 103-127: one pass of the inner loop, on the response to
\* fetch(current_url)
scrape_step(c, resp) ==
    IF resp.status = "HTTPError"
    THEN next_candidate(Seen(c, "HTTPError"))
    ELSE IF resp.status # "ok"
    THEN [Seen(c, resp.status) EXCEPT !.state = "raised",
                                      !.raised = <<resp.status>>]
    ELSE IF resp.h1 # <<>> /\ resp.h1[1] # <<>>
    THEN scrape_returns(Seen(c, "title"), <<normalize_title(resp.h1[1])>>)
    ELSE LET murl == IF resp.meta # <<>> /\ resp.meta[1] # <<>>
                        /\ resp.meta[1][1] # <<>>
                     THEN search_url(resp.meta[1][1], 1) ELSE <<>>
         IN IF murl # <<>>
            THEN LET d == [Seen(c, "redirect") EXCEPT
                              !.hop = c.hop + 1,
                              !.current_url =
                                  urljoin(MITRE_BASE, redirect_target(murl[1]))]
                 IN IF d.hop < max_follow THEN d ELSE next_candidate(d)
            ELSE next_candidate(Seen(c, "dead"))

(***************************************************************************)
(* The collector runs: alienvault.py main, cisa.py scrape + main,          *)
(* talos.py main                                                           *)
(***************************************************************************)
Collectors == {"alienvault", "cisa", "talos"}

Digits == {"0", "1", "2", "3", "4", "5", "6", "7", "8", "9"}

\* utils.py 19: s is a whole match of TTP_REGEX, T\d{4}(?:\.\d{1,3})?
ttp_regex_match(s) ==
    /\ Len(s) \in {5, 7, 8, 9}
    /\ s[1] = "T"
    /\ \A i \in 2..5 : s[i] \in Digits
    /\ Len(s) > 5 => s[6] = "." /\ \A i \in 7..Len(s) : s[i] \in Digits

\* identifiers a report hands to the resolver
RawIds == {T1086, T1150, T1078, T1639, T0800, T9999, T1547_11}

\* reports per run and identifiers per run
MaxReports == 2
MaxIds == 2

RECURSIVE TotalIds(_)
TotalIds(rs) == IF rs = <<>> THEN 0 ELSE Len(Head(rs).raws) + TotalIds(Tail(rs))

Init ==
    /\ pc = "start"
    /\ collector \in Collectors
    /\ loaded = <<>>
    /\ builds = 0
    /\ mitre = <<>>
    /\ used = {}
    /\ reports = <<>>
    /\ ttps = <<>>
    /\ raws = <<>>
    /\ call = <<>>
    /\ exc = <<>>
    /\ written = FALSE
    /\ arg = <<>>
    /\ ret = <<>>
    /\ fetched = <<>>
    /\ scan = <<>>

\* alienvault.py main, lines 92-101: the pulses file is opened and parsed
LoadPulses ==
    /\ pc = "start"
    /\ collector = "alienvault"
    /\ \E outcome \in {"ok", "FileNotFoundError", "JSONDecodeError"} :
          pc' = IF outcome = "ok" THEN "input" ELSE "exit"
    /\ UNCHANGED <<collector, loaded, builds, mitre, used, reports, ttps, raws,
                   call, exc, written, arg, ret,
                   fetched, scan>>

\* MitreAttack() is called: alienvault.py 104, cisa.py 162, talos.py 292
NewMitreAttack ==
    /\ pc = IF collector = "alienvault" THEN "input" ELSE "start"
    /\ pc' = "build"
    /\ builds' = builds + 1
    /\ UNCHANGED <<collector, loaded, mitre, used, reports, ttps, raws,
                   call, exc, written, arg, ret,
                   fetched, scan>>

\* utils.py 52-68: the next dataset is fetched, parsed and added; after the
\* third the constructor returns and the collector holds the instance
LoadDataset ==
    /\ pc = "build"
    /\ \E outcome \in DatasetOutcomes :
          LET r == after_dataset(loaded, outcome) IN
          /\ loaded' = r.loaded
          /\ exc' = r.raised
          /\ IF r.raised # <<>>
             THEN pc' = "raised" /\ mitre' = mitre
             ELSE IF Len(r.loaded) < Len(Datasets)
             THEN pc' = "build" /\ mitre' = mitre
             ELSE /\ pc' = "loop"
                  /\ mitre' = <<[inst |-> builds, data |-> StoreOf(r.loaded, 1)]>>
    /\ UNCHANGED <<collector, builds, used, reports, ttps, raws, call,
                   written, arg, ret,
                   fetched, scan>>

\* a taxonomy is constructed for every report instead of once per run
BeginReport_constructing ==
    /\ pc = "loop"
    /\ Len(reports) < MaxReports
    /\ pc' = "report"
    /\ ttps' = <<>>
    /\ raws' = <<>>
    /\ builds' = builds + 1
    /\ mitre' = <<[inst |-> builds + 1, data |-> mitre[1].data]>>
    /\ UNCHANGED <<collector, loaded, used, reports, call, exc, written,
                   arg, ret,
                   fetched, scan>>

\* the loop takes the next pulse, advisory or IOC file
BeginReport ==
    /\ pc = "loop"
    /\ Len(reports) < MaxReports
    /\ pc' = "report"
    /\ ttps' = <<>>
    /\ raws' = <<>>
    /\ UNCHANGED <<collector, loaded, builds, mitre, used, reports, call,
                   exc, written, arg, ret,
                   fetched, scan>>

\* what the collector does with a call that returned or raised
AfterCall(c) ==
    /\ call' = <<c>>
    /\ IF c.state = "returned"
       THEN pc' = "report" /\ ttps' = Append(ttps, c.rec[1]) /\ exc' = exc
       ELSE IF c.state = "raised"
       THEN /\ pc' = "raised" /\ ttps' = ttps
            /\ exc' = <<[type |-> c.raised[1], in |-> "get_mitre_info"]>>
       ELSE pc' = "scrape" /\ ttps' = ttps /\ exc' = exc

\* the next identifier of the report: alienvault.py 80-83 (an attack_ids
\* entry), talos.py 164-168 (and 192-196, 215-219, 226-228) and cisa.py
\* 132-136 (a match of TTP_REGEX), cisa.py with its check of the ids already
\* in the list
Resolve ==
    /\ pc = "report"
    /\ TotalIds(reports) + Len(raws) < MaxIds
    /\ \E raw \in RawIds :
          /\ collector = "alienvault" \/ ttp_regex_match(raw)
          /\ raws' = Append(raws, raw)
          /\ IF collector = "cisa" /\ \E i \in 1..Len(ttps) : ttps[i].id = raw
             THEN UNCHANGED <<pc, ttps, call, exc, used>>
             ELSE /\ used' = used \cup {mitre[1].inst}
                  /\ AfterCall([raw |-> raw] @@
                               get_mitre_info(mitre[1], remap_old_tid(raw)))
    /\ UNCHANGED <<collector, loaded, builds, mitre, reports, written, arg, ret,
                   fetched, scan>>

\* utils.py 103-127: the reference site answers the pending fetch
Fetch ==
    /\ pc = "scrape"
    /\ \E resp \in Responses : AfterCall(scrape_step(call[1], resp))
    /\ UNCHANGED <<collector, loaded, builds, mitre, used, reports, raws,
                   written, arg, ret,
                   fetched, scan>>

\* the report is assembled: alienvault.py 113-124, cisa.py 146-148 and
\* 194-199, talos.py 299-310
EndReport ==
    /\ pc = "report"
    /\ LET f == filter_goal_ttps(ttps) IN
          reports' = Append(reports,
                            [goals |-> f.goals, ttps |-> f.ttps, raws |-> raws])
    /\ pc' = "loop"
    /\ ttps' = <<>>
    /\ raws' = <<>>
    /\ UNCHANGED <<collector, loaded, builds, mitre, used, call, exc,
                   written, arg, ret,
                   fetched, scan>>

\* the loop is over and the output file is written: alienvault.py 127-132,
\* cisa.py 207-214, talos.py 313-317
Finish ==
    /\ pc = "loop"
    /\ pc' = "done"
    /\ written' = TRUE
    /\ UNCHANGED <<collector, loaded, builds, mitre, used, reports, ttps, raws,
                   call, exc, arg, ret,
                   fetched, scan>>

Next ==
    \/ LoadPulses
    \/ NewMitreAttack
    \/ LoadDataset
    \/ BeginReport
    \/ Resolve
    \/ Fetch
    \/ EndReport
    \/ Finish

Spec == Init /\ [][Next]_vars

(***************************************************************************)
(* The pure functions on their own: remap_old_tid applied once and again,  *)
(* the candidate URLs of scrape_mitre_name, filter_goal_ttps               *)
(***************************************************************************)
PureDigits == {"0", "1", "5", "6", "8"}

PureBases == { <<"T">> \o <<a, b, c, d>> : a \in {"1"}, b \in PureDigits,
                                           c \in PureDigits, d \in PureDigits }
             \cup {T1162, T9999}

SubDigits == {"0", "1"}

PureSubs == { <<a>> : a \in SubDigits }
            \cup { <<a, b>> : a \in SubDigits, b \in SubDigits }
            \cup { <<a, b, c>> : a \in SubDigits, b \in SubDigits, c \in SubDigits }

TidOf(base, sub) == IF sub = <<>> THEN base ELSE base \o <<".">> \o sub

\* identifier strings, well-formed or not
PureIds == { TidOf(b, s) : b \in PureBases, s \in PureSubs \cup {<<>>} }
           \cup {T1059_001, T1059_002, T1547_011, <<>>, <<"t","1","0","8","6">>}

Rec(id, name, tactics) == [name |-> name, id |-> id, tactics |-> tactics]

PureRecords ==
    { Rec(T1486, <<"D","E">>, <<"impact">>),
      Rec(T1639, <<"E","A">>, <<"exfiltration">>),
      Rec(T1078, <<"V","A">>, <<"defense-evasion", "persistence">>),
      Rec(T1486, <<"D","E">>, <<"persistence", "impact">>),
      Rec(T9999, <<>>, <<>>),
      Rec(T0800, <<"A","F">>, <<"Impact">>) }

\* length of the lists filter_goal_ttps is tried on
MaxLen == 3

RECURSIVE SeqsUpTo(_, _)
SeqsUpTo(S, n) ==
    IF n = 0 THEN { <<>> }
    ELSE LET shorter == SeqsUpTo(S, n - 1)
         IN shorter \cup { Append(l, x) : l \in shorter, x \in S }

\* heading texts as get_text(strip=True) gives them: not empty, no white
\* space at either end
TitleChars == {"A", ":", " "}

MaxTitle == 4

PureTitles ==
    { t \in SeqsUpTo(TitleChars, MaxTitle) :
         t # <<>> /\ t[1] # " " /\ t[Len(t)] # " " }

PureInit ==
    /\ \/ pc = "remap" /\ arg \in PureIds
       \/ pc = "title" /\ arg \in PureTitles
       \/ pc = "candidates" /\ arg \in [base : PureBases, sub : PureSubs \cup {<<>>}]
       \/ pc = "filter" /\ arg \in SeqsUpTo(PureRecords, MaxLen)
    /\ ret = <<>>
    /\ collector = ""
    /\ loaded = <<>>
    /\ builds = 0
    /\ mitre = <<>>
    /\ used = {}
    /\ reports = <<>>
    /\ ttps = <<>>
    /\ raws = <<>>
    /\ call = <<>>
    /\ exc = <<>>
    /\ written = FALSE
    /\ fetched = <<>>
    /\ scan = <<>>

RunVars == <<collector, loaded, builds, mitre, used, reports, ttps, raws,
             call, exc, written, fetched, scan>>

\* remap_old_tid on the input, then on its own result
CallRemap ==
    /\ pc = "remap"
    /\ Len(ret) < 2
    /\ ret' = Append(ret, remap_old_tid(IF ret = <<>> THEN arg ELSE ret[Len(ret)]))
    /\ UNCHANGED <<pc, arg, RunVars>>

\* utils.py 114 on the heading text, then on its own result
CallNormalize ==
    /\ pc = "title"
    /\ Len(ret) < 2
    /\ ret' = Append(ret, normalize_title(IF ret = <<>> THEN arg
                                          ELSE ret[Len(ret)]))
    /\ UNCHANGED <<pc, arg, RunVars>>

\* the candidates list of scrape_mitre_name for the identifier base[.sub]
CallCandidates ==
    /\ pc = "candidates"
    /\ ret' = candidates_for(TidOf(arg.base, arg.sub))
    /\ pc' = "candidates_done"
    /\ UNCHANGED <<arg, RunVars>>

\* filter_goal_ttps(arg): ret.goals is returned, ret.ttps is the list after
CallFilter ==
    /\ pc = "filter"
    /\ ret' = filter_goal_ttps(arg)
    /\ pc' = "filter_done"
    /\ UNCHANGED <<arg, RunVars>>

PureNext == CallRemap \/ CallNormalize \/ CallCandidates \/ CallFilter

SpecPure == PureInit /\ [][PureNext]_vars

(***************************************************************************)
(* One get_mitre_info call against a loaded taxonomy, with the fetches its *)
(* fallback makes written down in order                                    *)
(***************************************************************************)
\* identifiers the call is made for: three the index holds (with tactics,
\* without the attribute, with an empty list), an undotted and a dotted one
\* it does not
ScrapeIds == {T1078, T0800, T0801, T9999, T1547_11}

\* what the reference site answers to one fetch
ScrapeResponses ==
    { Page(<<t>>, <<>>) : t \in Titles }
    \cup { Page(<<>>, << <<c>> >>) : c \in RedirectContents }
    \cup { Page(<<>>, <<>>), [status |-> "HTTPError"],
           [status |-> "ConnectionError"] }

\* the state after MitreAttack() returned with the three datasets loaded
ScrapeInit ==
    /\ pc = "resolve"
    /\ arg \in ScrapeIds
    /\ mitre = <<[inst |-> 1, data |-> StoreOf(<<"ok", "ok", "ok">>, 1)]>>
    /\ builds = 1
    /\ loaded = <<"ok", "ok", "ok">>
    /\ call = <<>>
    /\ fetched = <<>>
    /\ ret = <<>>
    /\ collector = ""
    /\ used = {}
    /\ reports = <<>>
    /\ ttps = <<>>
    /\ raws = <<>>
    /\ exc = <<>>
    /\ written = FALSE
    /\ scan = <<>>

\* where a call that is not fetching any more leaves the harness
AfterStep(c) ==
    /\ call' = <<c>>
    /\ pc' = IF c.state = "fetching" THEN "fallback" ELSE "resolved"

\* utils.py 70-79 and 90-102: get_mitre_info(arg) up to its first fetch
CallGetMitreInfo ==
    /\ pc = "resolve"
    /\ AfterStep([raw |-> arg] @@ get_mitre_info(mitre[1], arg))
    /\ UNCHANGED <<collector, loaded, builds, mitre, used, reports, ttps, raws,
                   exc, written, arg, ret, fetched, scan>>

\* utils.py 103-127: fetch(current_url) is answered and the loop body runs
FetchLogged ==
    /\ pc = "fallback"
    /\ \E resp \in ScrapeResponses :
          /\ fetched' = Append(fetched, [ci |-> call[1].ci,
                                         url |-> call[1].current_url,
                                         resp |-> resp])
          /\ AfterStep(scrape_step(call[1], resp))
    /\ UNCHANGED <<collector, loaded, builds, mitre, used, reports, ttps, raws,
                   exc, written, arg, ret, scan>>

ScrapeNext == CallGetMitreInfo \/ FetchLogged

SpecScrape == ScrapeInit /\ [][ScrapeNext]_vars

(***************************************************************************)
(* cisa.py: scrape, the scan of the advisory index                         *)
(***************************************************************************)
NO_TITLE == <<"(", "n", "o", " ", "t", "i", "t", "l", "e", ")">>

\* a date text is a sequence of tokens: <<month word, day, year>> where the
\* regex of parse_date has something to match, NO_DATE where the page has
\* no <time> text
NO_DATE == <<"(no date)">>

\* cisa.py 18-30: html.h1 and html.time are <<>> (no tag, or no text in it)
\* or <<text>>
parse_advisory_page(html) ==
    [title |-> IF html.h1 # <<>> THEN html.h1[1] ELSE NO_TITLE,
     date  |-> IF html.time # <<>> THEN html.time[1] ELSE NO_DATE]

\* strptime's %b and %B, which ignore case: 0 when the word is no such name
month_b(w) ==
    CASE w \in {"Jan", "JAN"} -> 1
      [] w \in {"Feb", "FEB"} -> 2
      [] w \in {"Oct", "OCT"} -> 10
      [] w \in {"Dec", "DEC"} -> 12
      [] OTHER -> 0

month_B(w) ==
    CASE w \in {"January", "JANUARY"} -> 1
      [] w \in {"February", "FEBRUARY"} -> 2
      [] w \in {"October", "OCTOBER"} -> 10
      [] w \in {"December", "DECEMBER"} -> 12
      [] OTHER -> 0

IsLeap(y) == (y % 4 = 0 /\ y % 100 # 0) \/ y % 400 = 0

DaysIn(m, y) ==
    CASE m \in {4, 6, 9, 11} -> 30
      [] m = 2 -> IF IsLeap(y) THEN 29 ELSE 28
      [] OTHER -> 31

\* cisa.py 33-46: <<>> for None, or << <<year, month, day>> >>
parse_date(date_text) ==
    IF Len(date_text) # 3 THEN <<>>
    ELSE LET m == IF month_b(date_text[1]) # 0 THEN month_b(date_text[1])
                  ELSE month_B(date_text[1])
             d == date_text[2]
             y == date_text[3]
         IN IF m = 0 \/ y < 1 \/ d < 1 \/ d > DaysIn(m, y) THEN <<>>
            ELSE << <<y, m, d>> >>

\* cisa.py 184: d < cutoff
DateLess(d, e) ==
    \/ d[1] < e[1]
    \/ d[1] = e[1] /\ d[2] < e[2]
    \/ d[1] = e[1] /\ d[2] = e[2] /\ d[3] < e[3]

\* cisa.py 161: the default of scrape's cutoff parameter, date(2017, 1, 1)
cutoff == <<2017, 1, 1>>

DigitChar(n) ==
    CASE n = 0 -> "0" [] n = 1 -> "1" [] n = 2 -> "2" [] n = 3 -> "3"
      [] n = 4 -> "4" [] n = 5 -> "5" [] n = 6 -> "6" [] n = 7 -> "7"
      [] n = 8 -> "8" [] n = 9 -> "9"

\* date.isoformat(): YYYY-MM-DD
isoformat(d) ==
    << DigitChar(d[1] \div 1000), DigitChar((d[1] \div 100) % 10),
       DigitChar((d[1] \div 10) % 10), DigitChar(d[1] % 10), "-",
       DigitChar(d[2] \div 10), DigitChar(d[2] % 10), "-",
       DigitChar(d[3] \div 10), DigitChar(d[3] % 10) >>

\* cisa.py 49-50: the regex is searched in the whole html, markup included
contains_ttps(html) == html.ids # <<>> \/ html.in_markup # <<>>

\* utils.py 103-128 run to its end against a site that answers every fetch
\* of this call with resp
RECURSIVE run_fallback(_, _)
run_fallback(c, resp) ==
    IF c.state = "fetching" THEN run_fallback(scrape_step(c, resp), resp)
    ELSE c

\* cisa.py 129-137 from the matches ids on: acc is [ttps, raised]
RECURSIVE get_ttps(_, _, _, _)
get_ttps(m, ids, site, acc) ==
    IF ids = <<>> THEN acc
    ELSE IF \E i \in DOMAIN acc.ttps : acc.ttps[i].id = Head(ids)
    THEN get_ttps(m, Tail(ids), site, acc)
    ELSE LET c == run_fallback(get_mitre_info(m, remap_old_tid(Head(ids))),
                               site)
         IN IF c.state = "raised"
            THEN [acc EXCEPT !.raised = c.raised]
            ELSE get_ttps(m, Tail(ids), site,
                          [acc EXCEPT !.ttps = Append(@, c.rec[1])])

\* cisa.py 53-148: goals and ttps of the advisory (summary and mitigations
\* are texts no decision depends on), or the exception get_mitre_info raised
extract_advisory_fields(html, m, site) ==
    LET g == get_ttps(m, html.ids, site, [ttps |-> <<>>, raised |-> <<>>])
        f == filter_goal_ttps(g.ttps)
    IN [raised |-> g.raised, goals |-> f.goals, ttps |-> f.ttps]

\* index pages scrape(max_pages) scans, and advisories the index lists in all
MaxPages == 2
MaxItems == 3

\* what the <time> tag of an advisory page can hold
DateTexts ==
    { <<"Jan", 1, 2017>>, <<"October", 9, 2025>>, <<"OCT", 9, 2025>>,
      <<"Dec", 31, 2016>>, <<"Feb", 30, 2025>> }

\* an advisory page: its <h1> text, its <time> text, the TTP_REGEX matches
\* of its text in order, and the matches that are in its markup only
Advisory(h1, time, ids, in_markup) ==
    [h1 |-> h1, time |-> time, ids |-> ids, in_markup |-> in_markup]

Advisories ==
    { Advisory(h, t, i[1], i[2]) :
         h \in { <<>>, << <<"A">> >> },
         t \in { <<>> } \cup { <<x>> : x \in DateTexts },
         i \in { << <<>>, <<>> >>, << <<>>, <<T1486>> >>,
                 << <<T1486, T1078>>, <<>> >>, << <<T9999>>, <<>> >> } }

\* what fetch(item_url) can end in
ItemResponses ==
    { [status |-> "ok", html |-> a] : a \in Advisories }
    \cup { [status |-> e] : e \in {"HTTPError", "ConnectionError"} }

\* how the reference site answers the fallback fetches of one extraction
SiteAnswers == { [status |-> "HTTPError"], [status |-> "ConnectionError"] }

\* an item's response with the site's answer; the site is asked only when
\* the advisory names an identifier the index lacks
ItemInputs ==
    { <<r, a>> \in ItemResponses \X SiteAnswers :
         \/ a = [status |-> "HTTPError"]
         \/ r.status = "ok" /\ r.html.ids = <<T9999>> }

\* the locals of scrape after line 167, with what the scan did so far:
\* at is "index" (about to take the next index page), "items" (inside the
\* items of page p, left of them to come), "returned" or "raised";
\* listed counts the advisories the index pages listed, extracted holds the
\* (title, date) of every extract_advisory_fields call, skipped counts the
\* items passed over for a failed fetch or a date that does not parse,
\* last is what the last step did, cutoff_at the fetch counters when a page
\* dated before the cutoff was parsed
scan0 ==
    [at |-> "index", p |-> 0, left |-> 0, listed |-> 0,
     matches |-> <<>>, seen_keys |-> {}, total_ttps |-> 0,
     index_fetches |-> 0, item_fetches |-> 0,
     extracted |-> <<>>, skipped |-> 0, last |-> "start",
     cutoff_at |-> <<>>, returned |-> <<>>]

CisaInit ==
    /\ pc = "index"
    /\ scan = scan0
    /\ collector = "cisa"
    /\ mitre = <<[inst |-> 1, data |-> StoreOf(<<"ok", "ok", "ok">>, 1)]>>
    /\ builds = 1
    /\ loaded = <<"ok", "ok", "ok">>
    /\ used = {}
    /\ reports = <<>>
    /\ ttps = <<>>
    /\ raws = <<>>
    /\ call = <<>>
    /\ exc = <<>>
    /\ written = FALSE
    /\ arg = <<>>
    /\ ret = <<>>
    /\ fetched = <<>>

\* cisa.py 168 and 171: the item is done, the loops go on
next_item(s) ==
    IF s.left > 1 THEN [s EXCEPT !.left = @ - 1]
    ELSE [s EXCEPT !.left = 0, !.at = "index", !.p = @ + 1]

\* cisa.py 176-177, 182-183, 191-192, 205: nothing is kept of the item
skip(s, why) ==
    next_item([s EXCEPT !.last = why,
                        !.skipped = IF why \in {"fetch_failed", "no_date"}
                                    THEN @ + 1 ELSE @])

\* a page dated before the cutoff is passed over like one without a date
on_cutoff_continue(s) ==
    skip([s EXCEPT !.cutoff_at = <<[item_fetches |-> s.item_fetches,
                                    index_fetches |-> s.index_fetches]>>],
         "before_cutoff")

\* cisa.py 184-186: return matches, total_ttps
on_cutoff(s) ==
    [s EXCEPT !.at = "returned", !.last = "before_cutoff",
              !.cutoff_at = <<[item_fetches |-> s.item_fetches,
                               index_fetches |-> s.index_fetches]>>,
              !.returned = <<[matches |-> s.matches,
                              total_ttps |-> s.total_ttps]>>]

\* the advisory is kept but its key is not remembered
keep_unseen(s, key, fields) ==
    next_item([s EXCEPT !.matches = Append(@, fields),
                        !.total_ttps = @ + Len(fields.ttps),
                        !.last = "kept"])

\* cisa.py 198-203
keep(s, key, fields) ==
    next_item([s EXCEPT !.seen_keys = @ \cup {key},
                        !.matches = Append(@, fields),
                        !.total_ttps = @ + Len(fields.ttps),
                        !.last = "kept"])

\* cisa.py 172-205: the body of the inner loop for one item, resp being
\* what fetch(item_url) ends in
scrape_item(s0, m, resp, site) ==
    LET s == [s0 EXCEPT !.item_fetches = @ + 1]
        item_url == [page |-> s0.p, fetch |-> s0.item_fetches + 1]
    IN IF resp.status # "ok" THEN skip(s, "fetch_failed")
       ELSE LET parsed == parse_advisory_page(resp.html)
                d == parse_date(parsed.date)
            IN IF d = <<>> THEN skip(s, "no_date")
               ELSE IF DateLess(d[1], cutoff) THEN on_cutoff(s)
               ELSE IF ~contains_ttps(resp.html) THEN skip(s, "no_ttps")
               ELSE LET key == parsed.title \o <<"|", "|">> \o isoformat(d[1])
                    IN IF key \in s.seen_keys THEN skip(s, "duplicate")
                       ELSE LET f == extract_advisory_fields(resp.html, m, site)
                                t == [s EXCEPT !.extracted =
                                         Append(@, <<parsed.title,
                                                     isoformat(d[1])>>)]
                            IN IF f.raised # <<>>
                               THEN [t EXCEPT !.at = "raised",
                                              !.last = "raised"]
                               ELSE keep(t, key,
                                         [title |-> parsed.title,
                                          date |-> isoformat(d[1]),
                                          url |-> item_url,
                                          goals |-> f.goals,
                                          ttps |-> f.ttps])

\* cisa.py 168-171 and 150-159: the next index page is fetched, it lists n
\* advisories; fetch is not in a try here
FetchIndex ==
    /\ pc = "index"
    /\ scan.p < MaxPages
    /\ \E n \in 0..(MaxItems - scan.listed) :
          scan' = [scan EXCEPT !.index_fetches = @ + 1,
                               !.listed = @ + n,
                               !.left = n,
                               !.last = "index",
                               !.at = IF n = 0 THEN "index" ELSE "items",
                               !.p = IF n = 0 THEN @ + 1 ELSE @]
    /\ pc' = scan'.at
    /\ UNCHANGED <<collector, loaded, builds, mitre, used, reports, ttps, raws,
                   call, exc, written, arg, ret, fetched>>

\* the fetch of an index page raises and scrape with it
FetchIndexFails ==
    /\ pc = "index"
    /\ scan.p < MaxPages
    /\ \E e \in {"HTTPError", "ConnectionError"} :
          /\ scan' = [scan EXCEPT !.index_fetches = @ + 1, !.at = "raised",
                                  !.last = "index_failed"]
          /\ exc' = <<[type |-> e, in |-> "get_index_items"]>>
    /\ pc' = "raised"
    /\ UNCHANGED <<collector, loaded, builds, mitre, used, reports, ttps, raws,
                   call, written, arg, ret, fetched>>

\* cisa.py 172-205: the next advisory of the page
ScrapeItem ==
    /\ pc = "items"
    /\ \E x \in ItemInputs : scan' = scrape_item(scan, mitre[1], x[1], x[2])
    /\ pc' = scan'.at
    /\ exc' = IF scan'.at = "raised"
              THEN <<[type |-> "ConnectionError", in |-> "get_mitre_info"]>>
              ELSE exc
    /\ UNCHANGED <<collector, loaded, builds, mitre, used, reports, ttps, raws,
                   call, written, arg, ret, fetched>>

\* cisa.py 207: the last index page is done
ScanOver ==
    /\ pc = "index"
    /\ scan.p = MaxPages
    /\ scan' = [scan EXCEPT !.at = "returned", !.last = "pages_done",
                            !.returned = <<[matches |-> scan.matches,
                                            total_ttps |-> scan.total_ttps]>>]
    /\ pc' = "returned"
    /\ UNCHANGED <<collector, loaded, builds, mitre, used, reports, ttps, raws,
                   call, exc, written, arg, ret, fetched>>

CisaNext == FetchIndex \/ FetchIndexFails \/ ScrapeItem \/ ScanOver

SpecCisa == CisaInit /\ [][CisaNext]_vars

(***************************************************************************)
(* Properties                                                              *)
(***************************************************************************)
Range(f) == { f[i] : i \in DOMAIN f }

Returned == { c \in Range(call) : c.state = "returned" }

\* the identifier a raw identifier stands for, read off the table
Canonical(x) == IF x \in DOMAIN TID_REMAP THEN TID_REMAP[x] ELSE x

\* every record the run holds: in the list being built and in the reports
HeldRecords ==
    Range(ttps)
    \cup UNION { Range(reports[i].goals) \cup Range(reports[i].ttps) :
                 i \in DOMAIN reports }

InIndex(tid) == mitre # <<>> /\ \E i \in DOMAIN mitre[1].data :
                                    mitre[1].data[i].attack_id = tid

\* C1: resolution never fails: whatever way a fallback fetch fails (HTTP
\* error, connection failure, timeout), get_mitre_info returns a record and
\* no exception leaves it.
C1_ResolutionNeverRaises ==
    /\ \A e \in Range(exc) : e.in # "get_mitre_info"
    /\ \A c \in Range(call) : c.state # "raised"

\* C2: for an identifier that is not in the index, when no fetch of the
\* fallback yielded a title (the fetches answered with an HTTP error, a page
\* with neither heading nor redirect, or redirects only), get_mitre_info
\* returns exactly {name: "", id: the identifier passed in, tactics: []}.
C2_NotFoundRecord ==
    \A c \in Returned :
        (~InIndex(c.tid) /\ "title" \notin c.kinds)
        => c.rec = << [name |-> <<>>, id |-> c.tid, tactics |-> <<>>] >>

\* a sub-technique identifier both of whose candidates answered with an HTTP
\* error, and one whose pages had neither heading nor redirect
C2_Witness ==
    \E c \in Returned :
        /\ ~InIndex(c.tid)
        /\ Len(c.candidates) = 2
        /\ c.kinds = {"HTTPError", "dead"}
        /\ c.rec[1].name = <<>>

\* C3: in every collector and on every resolution path the identifier looked
\* up and echoed in the record's id is remap(raw identifier), and no record
\* of any report has an id that is a key of the remap table.
C3_IdIsRemapped ==
    /\ \A c \in Range(call) : c.tid = Canonical(c.raw)
    /\ \A c \in Returned : c.rec[1].id = Canonical(c.raw)
    /\ \A r \in HeldRecords : r.id \notin DOMAIN TID_REMAP

\* a retired identifier resolved through the fallback in a CISA run, with a
\* report already holding records
C3_Witness ==
    /\ collector = "cisa"
    /\ \E c \in Returned :
          /\ c.raw = T1150
          /\ c.rec[1].id = T1547_011
          /\ c.rec[1].name # <<>>
    /\ \E i \in DOMAIN reports : reports[i].goals # <<>>

\* C4: for an identifier that is in the index, the record carries the indexed
\* technique's name and one tactic label per kill-chain phase, in the phases'
\* order; a technique without tactic associations yields tactics = [].
C4_FoundRecord ==
    \A c \in Returned : \A i \in DOMAIN mitre[1].data :
        LET t == mitre[1].data[i] IN
        t.attack_id = c.tid =>
            /\ c.rec[1].name = t.name
            /\ IF t.kill_chain_phases = <<>>
               THEN c.rec[1].tactics = <<>>
               ELSE /\ Len(c.rec[1].tactics) = Len(t.kill_chain_phases[1])
                    /\ \A j \in DOMAIN t.kill_chain_phases[1] :
                          c.rec[1].tactics[j] = t.kill_chain_phases[1][j].phase_name

\* a technique of two phases, resolved
C4_Witness ==
    \E c \in Returned :
        /\ c.tid = T1078
        /\ c.rec[1].tactics = <<"defense-evasion", "persistence">>

\* whether a record is a goal, from the tactic labels it holds
HasGoalTactic(r) == {"impact", "exfiltration"} \cap Range(r.tactics) # {}

\* C5: filter_goal_ttps is a stable partition: the returned list is the
\* subsequence of the records whose tactics contain "impact" or
\* "exfiltration", the input list after the call is the subsequence of the
\* others, both in the original order, duplicates included.
C5_StablePartition ==
    pc = "filter_done" =>
        /\ ret.goals = SelectSeq(arg, HasGoalTactic)
        /\ ret.ttps = SelectSeq(arg, LAMBDA r : ~HasGoalTactic(r))
        /\ Len(ret.goals) + Len(ret.ttps) = Len(arg)

\* two equal goal records around a record that is no goal
C5_Witness ==
    /\ pc = "filter_done"
    /\ Len(arg) = 3
    /\ arg[1] = arg[3]
    /\ HasGoalTactic(arg[1])
    /\ ~HasGoalTactic(arg[2])
    /\ ret.goals = <<arg[1], arg[3]>>
    /\ ret.ttps = <<arg[2]>>

\* C6: remap_old_tid returns the table's value for every key of TID_REMAP
\* and its argument for every other string.
C6_RemapTableDriven ==
    (pc = "remap" /\ Len(ret) >= 1) =>
        /\ \A k \in DOMAIN TID_REMAP : arg = k => ret[1] = TID_REMAP[k]
        /\ arg \notin DOMAIN TID_REMAP => ret[1] = arg

\* a key of the table, remapped
C6_Witness ==
    /\ pc = "remap"
    /\ arg = T1162
    /\ Len(ret) >= 1
    /\ ret[1] = T1547_011

\* C7: remap_old_tid is idempotent, remap(remap(x)) = remap(x), and no value
\* of TID_REMAP is one of its keys.
C7_RemapIdempotent ==
    /\ (pc = "remap" /\ Len(ret) = 2) => ret[2] = ret[1]
    /\ \A k \in DOMAIN TID_REMAP : TID_REMAP[k] \notin DOMAIN TID_REMAP

\* a key of the table, remapped twice
C7_Witness ==
    /\ pc = "remap"
    /\ arg = T1086
    /\ ret = <<T1059_001, T1059_001>>

\* C8: construction is fail-fast: once the fetch or parse of one dataset has
\* failed the run has ended in that exception with no index, no identifier
\* resolved and no report or output produced; an index, when there is one,
\* holds all three datasets.
C8_FailFast ==
    /\ (\E i \in DOMAIN loaded : loaded[i] # "ok") =>
          /\ pc = "raised"
          /\ \E e \in Range(exc) : e.in = "MitreAttack"
          /\ mitre = <<>>
          /\ used = {}
          /\ call = <<>>
          /\ reports = <<>>
          /\ ttps = <<>>
          /\ ~written
    /\ mitre # <<>> =>
          /\ loaded = <<"ok", "ok", "ok">>
          /\ mitre[1].data = ENTERPRISE \o MOBILE \o ICS

\* the third dataset fails after two were loaded
C8_Witness ==
    /\ Len(loaded) = 3
    /\ loaded[1] = "ok" /\ loaded[2] = "ok" /\ loaded[3] # "ok"
    /\ pc = "raised"

RunOver == pc \in {"done", "exit", "raised"}

\* what C9 says of the calls: the index is complete before the first
\* get_mitre_info call and every call is made on the one instance
OneInstanceBeforeCalls ==
    /\ builds <= 1
    /\ (call # <<>> \/ used # {}) =>
          /\ mitre # <<>>
          /\ loaded = <<"ok", "ok", "ok">>
          /\ used = {mitre[1].inst}
          /\ \A c \in Range(call) : c.inst = mitre[1].inst

\* C9 as stated: in every run of each collector the taxonomy index is
\* constructed exactly once, before the first get_mitre_info call, and the
\* same instance serves every call.
C9_ExactlyOnceEveryRun ==
    /\ RunOver => builds = 1
    /\ OneInstanceBeforeCalls

\* C9 amended: MitreAttack() is called at most once per run: once in every
\* CISA and Talos run and in every AlienVault run whose pulses file loads,
\* not at all in an AlienVault run that ends on a missing or invalid pulses
\* file; the index is complete before the first get_mitre_info call and the
\* same instance serves every call.
C9_OnceUnlessInputMissing ==
    /\ pc = "exit" => (collector = "alienvault" /\ builds = 0)
    /\ (pc \notin {"start", "input", "exit"}) => builds = 1
    /\ OneInstanceBeforeCalls

\* a finished run of two reports, an identifier resolved in each
C9_Witness ==
    /\ pc = "done"
    /\ Len(reports) = 2
    /\ \A i \in DOMAIN reports : Len(reports[i].raws) = 1
    /\ builds = 1
    /\ used = {mitre[1].inst}

\* the suffix left-padded with zeros to 3 digits
Pad3(sub) ==
    [i \in 1..3 |-> IF i <= 3 - Len(sub) THEN "0" ELSE sub[i - (3 - Len(sub))]]

\* C10: for a sub-technique identifier B.S the fallback builds exactly two
\* candidates, <base>/techniques/B/<S padded to 3 digits>/ and then
\* <base>/techniques/B/ ; for an identifier without a dot exactly one,
\* <base>/techniques/<id>/ .
C10_Candidates ==
    pc = "candidates_done" =>
        LET stem == MITRE_BASE \o TECHNIQUES \o arg.base \o <<"/">> IN
        IF arg.sub # <<>>
        THEN /\ Len(ret) = 2
             /\ Len(ret[1]) = Len(stem) + 4
             /\ SubSeq(ret[1], 1, Len(stem)) = stem
             /\ \A i \in 1..3 : ret[1][Len(stem) + i] = Pad3(arg.sub)[i]
             /\ ret[1][Len(stem) + 4] = "/"
             /\ ret[2] = stem
        ELSE ret = <<stem>>

\* a two-digit suffix, padded
C10_Witness ==
    /\ pc = "candidates_done"
    /\ arg.sub = <<"1", "1">>
    /\ Len(ret) = 2
    /\ SubSeq(ret[1], Len(ret[1]) - 4, Len(ret[1])) = <<"/", "0", "1", "1", "/">>

(***************************************************************************)
(* The fallback's fetches, read off the responses                          *)
(***************************************************************************)
HasTitle(r) == r.status = "ok" /\ r.h1 # <<>> /\ r.h1[1] # <<>>

IsRedirect(r) ==
    /\ r.status = "ok"
    /\ ~HasTitle(r)
    /\ r.meta # <<>>
    /\ r.meta[1] # <<>>
    /\ r.meta[1][1] \in RedirectContents

IsDead(r) == r.status = "ok" /\ ~HasTitle(r) /\ ~IsRedirect(r)

\* how many of the first j fetches were made for candidate i
FetchesFor(i, j) == Cardinality({ k \in 1..j : fetched[k].ci = i })

\* fetch j ended its candidate without a title: an HTTP error, a page with
\* neither heading nor redirect, or the last redirect the budget allows
EndedWithoutTitle(j) ==
    \/ fetched[j].resp.status = "HTTPError"
    \/ IsDead(fetched[j].resp)
    \/ IsRedirect(fetched[j].resp) /\ FetchesFor(fetched[j].ci, j) = 5

\* C11: the fallback chain is ordered and stops at the first success: an id
\* the index holds causes no fetch; the first fetch is the first candidate
\* URL; the parent URL is fetched only right after the sub-technique
\* candidate ended without a title (HTTP error, page with neither heading
\* nor redirect, hop budget exhausted), and such an ending always leaves
\* the parent candidate about to be fetched; a fetch that obtained a title
\* is the last fetch of the call.
C11_OrderedChain ==
    call # <<>> =>
    LET c == call[1]
        cands == candidates_for(arg)
        n == Len(fetched)
    IN /\ InIndex(arg) => n = 0 /\ c.state = "returned"
       /\ n >= 1 => fetched[1].ci = 1 /\ fetched[1].url = cands[1]
       /\ \A j \in 2..n :
             \/ fetched[j].ci = fetched[j - 1].ci
             \/ /\ fetched[j].ci = fetched[j - 1].ci + 1
                /\ fetched[j].ci <= Len(cands)
                /\ fetched[j].url = cands[fetched[j].ci]
                /\ EndedWithoutTitle(j - 1)
       /\ (n >= 1 /\ EndedWithoutTitle(n) /\ fetched[n].ci < Len(cands)) =>
             /\ c.state = "fetching"
             /\ c.ci = fetched[n].ci + 1
             /\ c.current_url = cands[fetched[n].ci + 1]
       /\ \A j \in 1..n : HasTitle(fetched[j].resp) =>
             j = n /\ c.state = "returned" /\ c.rec[1].name # <<>>

\* the sub-technique candidate used up its hops and the parent page gave
\* the title
C11_Witness ==
    /\ arg = T1547_11
    /\ Len(fetched) = 6
    /\ call[1].state = "returned"
    /\ fetched[5].ci = 1
    /\ IsRedirect(fetched[5].resp)
    /\ fetched[6].ci = 2
    /\ HasTitle(fetched[6].resp)

HasDot(tid) == \E i \in 1..Len(tid) : tid[i] = "."

\* C12: scrape_mitre_name terminates whatever the site answers, redirect
\* cycles included: no candidate URL accounts for more than 5 fetches, a
\* call makes at most 10 fetches for a sub-technique id and at most 5
\* otherwise, a call that is about to fetch has not used up that budget
\* (every fetch counts against it), and the fifth redirect of a candidate
\* ends only that candidate: the next one, if any, is fetched next.
C12_BoundedFetches ==
    call # <<>> =>
    LET c == call[1]
        n == Len(fetched)
        budget == IF HasDot(arg) THEN 10 ELSE 5
    IN /\ \A i \in 1..2 : FetchesFor(i, n) <= 5
       /\ n <= budget
       /\ c.state = "fetching" => n < budget
       /\ c.state = "fetching" => FetchesFor(c.ci, n) < 5
       /\ \A j \in 1..n :
             (IsRedirect(fetched[j].resp) /\ FetchesFor(fetched[j].ci, j) = 5) =>
                IF HasDot(arg) /\ fetched[j].ci = 1
                THEN IF j = n THEN c.state = "fetching" /\ c.ci = 2
                     ELSE fetched[j + 1].ci = 2
                ELSE j = n /\ c.state = "returned" /\ c.rec[1].name = <<>>

\* a redirect cycle: both candidates of a sub-technique id answered with
\* redirects only, ten fetches in all
C12_Witness ==
    /\ arg = T1547_11
    /\ Len(fetched) = 10
    /\ \A j \in 1..10 : IsRedirect(fetched[j].resp)
    /\ call[1].state = "returned"

\* the URL a redirect page of the site sends the client to
TargetOf(r) == MITRE_BASE \o <<"/", "n", "/">>

\* C13: redirects are followed up to the hop budget: for every k from 0 to
\* 5, after k successive redirect pages of a candidate the page they lead
\* to (relative targets resolved against the site origin) is the next one
\* fetched, and when a fetched page has a non-empty heading the call
\* returns that heading, normalized, as the name.
C13_FollowsUpToFiveRedirects ==
    call # <<>> =>
    LET c == call[1]
        n == Len(fetched)
    IN \A j \in 1..n :
          /\ (IsRedirect(fetched[j].resp) /\ FetchesFor(fetched[j].ci, j) <= 5) =>
                IF j = n
                THEN /\ c.state = "fetching"
                     /\ c.ci = fetched[j].ci
                     /\ c.current_url = TargetOf(fetched[j].resp)
                ELSE /\ fetched[j + 1].ci = fetched[j].ci
                     /\ fetched[j + 1].url = TargetOf(fetched[j].resp)
          /\ HasTitle(fetched[j].resp) =>
                /\ c.state = "returned"
                /\ c.rec[1].name = normalize_title(fetched[j].resp.h1[1])

\* one space after every colon that no white space follows
RECURSIVE SpaceAfterColons(_)
SpaceAfterColons(text) ==
    IF text = <<>> THEN <<>>
    ELSE IF Head(text) = ":" /\ ~(Len(text) >= 2 /\ text[2] = " ")
         THEN <<":", " ">> \o SpaceAfterColons(Tail(text))
         ELSE <<Head(text)>> \o SpaceAfterColons(Tail(text))

\* C14: title normalization puts exactly one space after each colon that is
\* not already followed by white space and changes nothing else ("A: B"
\* stays "A: B"), and normalizing a normalized title gives it back.
C14_OneSpaceAfterColon ==
    (pc = "title" /\ Len(ret) >= 1) =>
        /\ ret[1] = SpaceAfterColons(arg)
        /\ Len(ret) = 2 => ret[2] = ret[1]

\* C15: every degraded record comes with a warning: when get_mitre_info
\* returns a record with empty tactics or an empty name (technique without
\* tactic data, attribute absent or present but empty; name from the
\* reference site; nothing found), that call printed exactly one warning
\* and it names the identifier; a call that returns a name and tactics
\* printed none.
C15_DegradedIffWarned ==
    \A c \in Returned :
        IF c.rec[1].tactics = <<>> \/ c.rec[1].name = <<>>
        THEN Len(c.warnings) = 1 /\ c.warnings[1].tid = c.rec[1].id
        ELSE c.warnings = <<>>

\* T and four digits, then nothing or a dot and exactly three digits
IsTechniqueIdentifier(s) ==
    /\ Len(s) \in {5, 9}
    /\ s[1] = "T"
    /\ \A i \in 2..5 : s[i] \in Digits
    /\ Len(s) = 9 => s[6] = "." /\ \A i \in 7..9 : s[i] \in Digits

\* C16: every record of a report has a well-formed id: identifiers taken
\* from text with TTP_REGEX (CISA, Talos), remapped and resolved, are T and
\* four digits, optionally followed by a dot and exactly three digits.
C16_IdsWellFormed ==
    collector \in {"cisa", "talos"} =>
        \A r \in HeldRecords : IsTechniqueIdentifier(r.id)

NoTwoWithSameId(recs) ==
    \A i, j \in DOMAIN recs : i # j => recs[i].id # recs[j].id

\* C17: the CISA collector's technique list holds no two records with the
\* same id, also when the advisory text names a retired identifier several
\* times or names identifiers that remap to the same one: neither the list
\* get_ttps is building nor goals and ttps of an advisory together.
C17_CisaNoDuplicateIds ==
    collector = "cisa" =>
        /\ NoTwoWithSameId(ttps)
        /\ \A i \in DOMAIN reports :
              NoTwoWithSameId(reports[i].goals \o reports[i].ttps)

\* the ISO dates of the advisories of the model that are dated on or after
\* 2017-01-01
OnOrAfterCutoff ==
    { <<"2", "0", "1", "7", "-", "0", "1", "-", "0", "1">>,
      <<"2", "0", "2", "5", "-", "1", "0", "-", "0", "9">> }

\* C18: the CISA scan stops at the first advisory older than the cutoff:
\* every advisory in matches (and in the returned list) is dated on or
\* after the cutoff; once a page dated before the cutoff has been parsed
\* scrape has returned the matches collected so far and no item or index
\* page has been fetched since; an item whose fetch failed or whose date
\* did not parse leaves the scan going, with nothing returned.
C18_CutoffEndsScan ==
    scan # <<>> =>
       /\ \A i \in DOMAIN scan.matches : scan.matches[i].date \in OnOrAfterCutoff
       /\ scan.cutoff_at # <<>> =>
             /\ scan.at = "returned"
             /\ scan.returned = <<[matches |-> scan.matches,
                                   total_ttps |-> scan.total_ttps]>>
             /\ scan.item_fetches = scan.cutoff_at[1].item_fetches
             /\ scan.index_fetches = scan.cutoff_at[1].index_fetches
       /\ scan.last \in {"fetch_failed", "no_date"} =>
             scan.at \in {"items", "index"} /\ scan.returned = <<>>

\* one item was skipped, one advisory was kept, and the third page was
\* dated before the cutoff
C18_Witness ==
    /\ scan # <<>>
    /\ scan.at = "returned"
    /\ scan.cutoff_at # <<>>
    /\ scan.item_fetches = 3
    /\ scan.skipped = 1
    /\ Len(scan.returned[1].matches) = 1

RECURSIVE SumOfTtps(_)
SumOfTtps(ms) ==
    IF ms = <<>> THEN 0 ELSE Len(Head(ms).ttps) + SumOfTtps(Tail(ms))

NoTwoWithSameTitleAndDate(ms) ==
    \A i, j \in DOMAIN ms :
        i # j => <<ms[i].title, ms[i].date>> # <<ms[j].title, ms[j].date>>

\* C19: advisories are deduplicated by title and date: matches, and the
\* list scrape returns, hold no two entries with the same (title, ISO date)
\* pair; extract_advisory_fields ran at most once per pair; total_ttps is
\* the sum of the lengths of the ttps lists of the matches.
C19_DedupAndTotal ==
    scan # <<>> =>
       /\ NoTwoWithSameTitleAndDate(scan.matches)
       /\ \A i, j \in DOMAIN scan.extracted :
             i # j => scan.extracted[i] # scan.extracted[j]
       /\ scan.total_ttps = SumOfTtps(scan.matches)
       /\ scan.returned # <<>> =>
             /\ NoTwoWithSameTitleAndDate(scan.returned[1].matches)
             /\ scan.returned[1].total_ttps =
                   SumOfTtps(scan.returned[1].matches)

\* two advisories were kept, one of them with techniques left after the
\* goals were taken out, and a third page with the title and date of one of
\* them was passed over
C19_Witness ==
    /\ scan # <<>>
    /\ scan.last = "duplicate"
    /\ Len(scan.matches) = 2
    /\ Len(scan.extracted) = 2
    /\ scan.total_ttps >= 1
    /\ \E i \in DOMAIN scan.matches : scan.matches[i].goals # <<>>

====
